---- MODULE Spec2Model ----
(***************************************************************************)
(* Model of src/app.js (focus_tasks): the persisted AppState, the startup  *)
(* reconciliation (loadState, checkMidnightReset, ensureDailyTasks) and    *)
(* the task / routine handlers.                                            *)
(*                                                                         *)
(* Dates are day numbers (new Date().toDateString() at day granularity),   *)
(* texts are sequences of one-character strings, generated identifiers are *)
(* <<"_", n>> with n a counter (Math.random never repeating), and the blob *)
(* under STORAGE_KEY is a tagged record (absent / malformed / object).     *)
(* One handler runs to completion per step; the host date is read once per *)
(* handler.                                                                *)
(***************************************************************************)
EXTENDS Integers, Sequences, FiniteSets, TLC

VARIABLES state, storage, today, pc, nextId, op, obs, initDay, acts

vars == <<state, storage, today, pc, nextId, op, obs, initDay, acts>>

---------------------------------------------------------------------------
(* Bounds of the model *)

MaxDay == 3        \* the host date runs over 2..MaxDay (day 1 is "yesterday")
MaxActions == 2    \* user events (clicks, key presses) handled in one behaviour

---------------------------------------------------------------------------
(* Constants & config (src/app.js 6-26) *)

NullDate == 0      \* lastOpenDate: null

Txt_MorningStretch ==
    <<"M","o","r","n","i","n","g"," ","S","t","r","e","t","c","h">>
Txt_Read15Mins == <<"R","e","a","d"," ","1","5"," ","M","i","n","s">>
Txt_ClearInbox == <<"C","l","e","a","r"," ","I","n","b","o","x">>

DEFAULT_DAILY_TASKS ==
    << [id |-> <<"dt", 1>>, text |-> Txt_MorningStretch, type |-> "daily"],
       [id |-> <<"dt", 2>>, text |-> Txt_Read15Mins,     type |-> "daily"],
       [id |-> <<"dt", 3>>, text |-> Txt_ClearInbox,     type |-> "daily"] >>

DefaultSettings ==
    [font |-> 1, timeFormat |-> "12h", dateFormat |-> "Month",
     themeColor |-> "green"]

\* the module-level `let state = {...}` evaluated on every page load
state0 ==
    [tasks |-> <<>>, dailyRoutine |-> <<>>, settings |-> DefaultSettings,
     lastOpenDate |-> NullDate]

---------------------------------------------------------------------------
(* Helpers *)

generateId(n) == <<"_", n>>

IsSpace(c) == c = " "

RECURSIVE trimStart(_)
trimStart(s) ==
    IF s = <<>> THEN <<>>
    ELSE IF IsSpace(Head(s)) THEN trimStart(Tail(s)) ELSE s

RECURSIVE trimEnd(_)
trimEnd(s) ==
    IF s = <<>> THEN <<>>
    ELSE IF IsSpace(s[Len(s)]) THEN trimEnd(SubSeq(s, 1, Len(s) - 1)) ELSE s

trim(s) == trimEnd(trimStart(s))

\* instances that all get one identifier, generated once outside the map
freshDaily_oneId(routine, n, date) ==
    [i \in 1..Len(routine) |->
        [id |-> generateId(n), text |-> routine[i].text,
         type |-> routine[i].type, completed |-> FALSE, dateAdded |-> date]]

\* state.dailyRoutine.map(t => ({...t, id: generateId(), completed: false,
\* dateAdded: date})), the n-th generated identifier going to the first template
freshDaily(routine, n, date) ==
    [i \in 1..Len(routine) |->
        [id |-> generateId(n + i - 1), text |-> routine[i].text,
         type |-> routine[i].type, completed |-> FALSE, dateAdded |-> date]]

\* Array.prototype.some(t => t.type === 'daily')
hasDailyTasks(tasks) == \E i \in 1..Len(tasks) : tasks[i].type = "daily"

---------------------------------------------------------------------------
(* Persistence.  A machine record m carries what a handler reads and       *)
(* writes: the in-memory state, the stored blob, the identifier counter,   *)
(* and bookkeeping of what ran (saves, reset, backfill, threw).            *)

\* JSON.stringify(state): every own property of state is written
JSON_stringify(st) ==
    [kind |-> "object", tasks |-> st.tasks,
     routineTag |-> "array", dailyRoutine |-> st.dailyRoutine,
     settings |-> st.settings, lastOpenDate |-> st.lastOpenDate]

\* state = { ...state, ...saved } for a parsed blob: a key absent from saved
\* keeps the value state already has, a key that is present (null included)
\* overwrites it
mergeSaved(st, blob) ==
    [tasks |-> blob.tasks,
     dailyRoutine |-> IF blob.routineTag = "absent" THEN st.dailyRoutine
                      ELSE blob.dailyRoutine,
     routineTag |-> IF blob.routineTag = "null" THEN "null" ELSE "array",
     settings |-> blob.settings,
     lastOpenDate |-> blob.lastOpenDate]

saveState(m) ==
    [m EXCEPT !.storage = JSON_stringify(m.state), !.saves = @ + 1]

\* loadState, raw present: parse, merge, "Merge defaults if missing"
loadSaved(m) ==
    LET merged == mergeSaved(m.state, m.storage)
    IN [m EXCEPT !.state =
           [tasks |-> merged.tasks,
            dailyRoutine |-> IF merged.routineTag = "null"  \* !state.dailyRoutine
                             THEN DEFAULT_DAILY_TASKS
                             ELSE merged.dailyRoutine,
            settings |-> merged.settings,
            lastOpenDate |-> merged.lastOpenDate]]

\* a first run that forgets to seed the routine
firstRun_noSeed(m, date) ==
    saveState([m EXCEPT
        !.state = [m.state EXCEPT
                      !.lastOpenDate = date,
                      !.tasks = freshDaily(m.state.dailyRoutine, m.nextId, date)],
        !.nextId = @ + Len(m.state.dailyRoutine)])

\* loadState, raw null: "First Run"
firstRun(m, date) ==
    saveState([m EXCEPT
        !.state = [m.state EXCEPT
                      !.dailyRoutine = DEFAULT_DAILY_TASKS,
                      !.lastOpenDate = date,
                      !.tasks = freshDaily(DEFAULT_DAILY_TASKS, m.nextId, date)],
        !.nextId = @ + Len(DEFAULT_DAILY_TASKS)])

loadState(m, date) ==
    IF m.storage.kind = "absent" THEN firstRun(m, date)
    ELSE IF m.storage.kind = "malformed"
    THEN [m EXCEPT !.threw = TRUE]        \* JSON.parse throws a SyntaxError
    ELSE loadSaved(m)

---------------------------------------------------------------------------
(* Midnight logic *)

\* a reset that does not record the day it ran on
performDailyReset_noDate(m, todayDate) ==
    saveState([m EXCEPT
        !.state = [m.state EXCEPT
                      !.tasks = freshDaily(m.state.dailyRoutine, m.nextId, todayDate)],
        !.nextId = @ + Len(m.state.dailyRoutine),
        !.reset = TRUE])

\* a reset that falls back to the default templates when the routine is empty
performDailyReset_defaultsIfEmpty(m, todayDate) ==
    LET routine == IF Len(m.state.dailyRoutine) = 0 THEN DEFAULT_DAILY_TASKS
                   ELSE m.state.dailyRoutine
    IN saveState([m EXCEPT
        !.state = [m.state EXCEPT
                      !.tasks = freshDaily(routine, m.nextId, todayDate),
                      !.lastOpenDate = todayDate],
        !.nextId = @ + Len(routine),
        !.reset = TRUE])

\* a reset that carries the extra tasks over
performDailyReset_keepExtras(m, todayDate) ==
    LET IsExtra(t) == t.type = "extra"
    IN saveState([m EXCEPT
        !.state = [m.state EXCEPT
                      !.tasks = freshDaily(m.state.dailyRoutine, m.nextId, todayDate)
                                \o SelectSeq(m.state.tasks, IsExtra),
                      !.lastOpenDate = todayDate],
        !.nextId = @ + Len(m.state.dailyRoutine),
        !.reset = TRUE])

performDailyReset(m, todayDate) ==
    saveState([m EXCEPT
        !.state = [m.state EXCEPT
                      !.tasks = freshDaily(m.state.dailyRoutine, m.nextId, todayDate),
                      !.lastOpenDate = todayDate],
        !.nextId = @ + Len(m.state.dailyRoutine),
        !.reset = TRUE])

\* a reset on every startup
checkMidnightReset_always(m, date) == performDailyReset(m, date)

checkMidnightReset(m, date) ==
    IF m.state.lastOpenDate # date THEN performDailyReset(m, date) ELSE m

\* a backfill that appends the daily tasks
ensureDailyTasks_append(m, date) ==
    IF ~hasDailyTasks(m.state.tasks) /\ Len(m.state.dailyRoutine) > 0
    THEN saveState([m EXCEPT
            !.state = [m.state EXCEPT
                          !.tasks = m.state.tasks
                                    \o freshDaily(m.state.dailyRoutine, m.nextId, date)],
            !.nextId = @ + Len(m.state.dailyRoutine),
            !.backfill = TRUE])
    ELSE m

\* a backfill that does not look for daily tasks already in the list
ensureDailyTasks_noCheck(m, date) ==
    IF Len(m.state.dailyRoutine) > 0
    THEN saveState([m EXCEPT
            !.state = [m.state EXCEPT
                          !.tasks = freshDaily(m.state.dailyRoutine, m.nextId, date)
                                    \o m.state.tasks],
            !.nextId = @ + Len(m.state.dailyRoutine),
            !.backfill = TRUE])
    ELSE m

ensureDailyTasks(m, date) ==
    IF ~hasDailyTasks(m.state.tasks) /\ Len(m.state.dailyRoutine) > 0
    THEN saveState([m EXCEPT
            !.state = [m.state EXCEPT
                          !.tasks = freshDaily(m.state.dailyRoutine, m.nextId, date)
                                    \o m.state.tasks],
            !.nextId = @ + Len(m.state.dailyRoutine),
            !.backfill = TRUE])
    ELSE m

---------------------------------------------------------------------------
(* Initialization: the page load evaluates the module (state = state0) and *)
(* runs init(): loadState, checkMidnightReset, ensureDailyTasks.           *)

machine(st, blob, n) ==
    [state |-> st, storage |-> blob, nextId |-> n, saves |-> 0,
     reset |-> FALSE, backfill |-> FALSE, threw |-> FALSE]

\* init() up to the renders; an exception in loadState aborts it
initRun(m, date) ==
    LET m1 == loadState(m, date)
    IN IF m1.threw THEN m1
       ELSE ensureDailyTasks(checkMidnightReset(m1, date), date)

\* What the last handler did, kept for the properties below: the blob init
\* read, the state loadState left, the saves / reset / backfill of that init,
\* whether it re-ran right after another init (and what that one left), the
\* arguments of the handler (id, index, text), and whether the handler threw.
NoId == <<"", 0>>

ObsNone ==
    [seen |-> [kind |-> "absent"], loaded |-> state0, saves |-> 0,
     reset |-> FALSE, backfill |-> FALSE, sameDay |-> FALSE,
     rerun |-> FALSE, prevTasks |-> <<>>, prevToday |-> FALSE,
     prevBackfill |-> FALSE, arg |-> NoId, index |-> 0, text |-> <<>>,
     threw |-> FALSE]

init ==
    LET m0 == machine(state0, storage, nextId)
        m1 == loadState(m0, today)
        m  == initRun(m0, today)
        again == op = "init" /\ pc = "running"
    IN /\ state' = m.state
       /\ storage' = m.storage
       /\ nextId' = m.nextId
       /\ pc' = IF m.threw THEN "crashed" ELSE "running"
       /\ op' = "init"
       /\ obs' = [seen |-> storage,
                  loaded |-> m1.state,
                  saves |-> m.saves,
                  reset |-> m.reset,
                  backfill |-> m.backfill,
                  sameDay |-> initDay = today,
                  rerun |-> again,
                  prevTasks |-> IF again THEN state.tasks ELSE <<>>,
                  prevToday |-> /\ again
                                /\ obs.seen.kind = "object"
                                /\ obs.seen.lastOpenDate = today,
                  prevBackfill |-> again /\ obs.backfill,
                  arg |-> NoId,
                  index |-> 0,
                  text |-> <<>>,
                  threw |-> m.threw]
       /\ initDay' = IF m.threw THEN initDay ELSE today
       /\ UNCHANGED <<today, acts>>

\* the host clock passes midnight
DateChange ==
    /\ today < MaxDay
    /\ today' = today + 1
    /\ op' = "DateChange"
    /\ obs' = ObsNone
    /\ UNCHANGED <<state, storage, pc, nextId, acts, initDay>>

---------------------------------------------------------------------------
(* Actions (src/app.js 247-295) *)

TextInputs == { <<>>, <<" ">>, <<" ", "a", " ">> }

\* an addTask that also records today as the last open date
addTask_touchDate(text) ==
    /\ pc = "running"
    /\ acts < MaxActions
    /\ acts' = acts + 1
    /\ IF trim(text) = <<>>
       THEN UNCHANGED <<state, storage, nextId>>
       ELSE LET newTask == [id |-> generateId(nextId), text |-> trim(text),
                            completed |-> FALSE, type |-> "extra",
                            dateAdded |-> today]
                m == saveState(machine(
                        [state EXCEPT !.tasks = Append(@, newTask),
                                      !.lastOpenDate = today],
                        storage, nextId + 1))
            IN /\ state' = m.state
               /\ storage' = m.storage
               /\ nextId' = m.nextId
    /\ op' = "addTask"
    /\ obs' = [ObsNone EXCEPT !.text = text]
    /\ UNCHANGED <<today, pc, initDay>>

\* an addTask that stores the text as typed
addTask_noTrim(text) ==
    /\ pc = "running"
    /\ acts < MaxActions
    /\ acts' = acts + 1
    /\ IF trim(text) = <<>>
       THEN UNCHANGED <<state, storage, nextId>>
       ELSE LET newTask == [id |-> generateId(nextId), text |-> text,
                            completed |-> FALSE, type |-> "extra",
                            dateAdded |-> today]
                m == saveState(machine(
                        [state EXCEPT !.tasks = Append(@, newTask)],
                        storage, nextId + 1))
            IN /\ state' = m.state
               /\ storage' = m.storage
               /\ nextId' = m.nextId
    /\ op' = "addTask"
    /\ obs' = [ObsNone EXCEPT !.text = text]
    /\ UNCHANGED <<today, pc, initDay>>

\* an addTask that puts the new task in front
addTask_unshift(text) ==
    /\ pc = "running"
    /\ acts < MaxActions
    /\ acts' = acts + 1
    /\ IF trim(text) = <<>>
       THEN UNCHANGED <<state, storage, nextId>>
       ELSE LET newTask == [id |-> generateId(nextId), text |-> trim(text),
                            completed |-> FALSE, type |-> "extra",
                            dateAdded |-> today]
                m == saveState(machine(
                        [state EXCEPT !.tasks = <<newTask>> \o @],
                        storage, nextId + 1))
            IN /\ state' = m.state
               /\ storage' = m.storage
               /\ nextId' = m.nextId
    /\ op' = "addTask"
    /\ obs' = [ObsNone EXCEPT !.text = text]
    /\ UNCHANGED <<today, pc, initDay>>

addTask(text) ==
    /\ pc = "running"
    /\ acts < MaxActions
    /\ acts' = acts + 1
    /\ IF trim(text) = <<>>
       THEN UNCHANGED <<state, storage, nextId>>
       ELSE LET newTask == [id |-> generateId(nextId), text |-> trim(text),
                            completed |-> FALSE, type |-> "extra",
                            dateAdded |-> today]
                m == saveState(machine(
                        [state EXCEPT !.tasks = Append(@, newTask)],
                        storage, nextId + 1))
            IN /\ state' = m.state
               /\ storage' = m.storage
               /\ nextId' = m.nextId
    /\ op' = "addTask"
    /\ obs' = [ObsNone EXCEPT !.text = text]
    /\ UNCHANGED <<today, pc, initDay>>

\* state.tasks.find(t => t.id === id): index of the first match, 0 if none
find(tasks, id) ==
    IF \E i \in 1..Len(tasks) : tasks[i].id = id
    THEN CHOOSE i \in 1..Len(tasks) :
            /\ tasks[i].id = id
            /\ \A j \in 1..(i - 1) : tasks[j].id # id
    ELSE 0

\* a toggle that moves the toggled task to the end of the list
toggleTask_moveToEnd(id) ==
    /\ pc = "running"
    /\ acts < MaxActions
    /\ acts' = acts + 1
    /\ LET i == find(state.tasks, id)
       IN IF i # 0
          THEN LET t == [state.tasks[i] EXCEPT !.completed = ~@]
                   m == saveState(machine(
                          [state EXCEPT !.tasks =
                              SubSeq(@, 1, i - 1) \o SubSeq(@, i + 1, Len(@))
                              \o <<t>>],
                          storage, nextId))
               IN /\ state' = m.state
                  /\ storage' = m.storage
          ELSE UNCHANGED <<state, storage>>
    /\ op' = "toggleTask"
    /\ obs' = [ObsNone EXCEPT !.arg = id]
    /\ UNCHANGED <<today, pc, nextId, initDay>>

\* a toggle that saves whether or not a task matched
toggleTask_alwaysSaves(id) ==
    /\ pc = "running"
    /\ acts < MaxActions
    /\ acts' = acts + 1
    /\ LET i == find(state.tasks, id)
       IN IF i # 0
          THEN LET m == saveState(machine(
                          [state EXCEPT !.tasks[i].completed = ~@],
                          storage, nextId))
               IN /\ state' = m.state
                  /\ storage' = m.storage
          ELSE /\ state' = state
               /\ storage' = saveState(machine(state, storage, nextId)).storage
    /\ op' = "toggleTask"
    /\ obs' = [ObsNone EXCEPT !.arg = id]
    /\ UNCHANGED <<today, pc, nextId, initDay>>

toggleTask(id) ==
    /\ pc = "running"
    /\ acts < MaxActions
    /\ acts' = acts + 1
    /\ LET i == find(state.tasks, id)
       IN IF i # 0
          THEN LET m == saveState(machine(
                          [state EXCEPT !.tasks[i].completed = ~@],
                          storage, nextId))
               IN /\ state' = m.state
                  /\ storage' = m.storage
          ELSE UNCHANGED <<state, storage>>
    /\ op' = "toggleTask"
    /\ obs' = [ObsNone EXCEPT !.arg = id]
    /\ UNCHANGED <<today, pc, nextId, initDay>>

\* index is a JS array index (0-based); dailyRoutine[index] is undefined
\* outside 0..length-1 and assigning to its .text throws a TypeError
updateDailyTask(index, newText) ==
    /\ pc = "running"
    /\ acts < MaxActions
    /\ acts' = acts + 1
    /\ IF trim(newText) # <<>>
       THEN IF index >= 0 /\ index < Len(state.dailyRoutine)
            THEN LET m == saveState(machine(
                            [state EXCEPT !.dailyRoutine[index + 1].text = trim(newText)],
                            storage, nextId))
                 IN /\ state' = m.state
                    /\ storage' = m.storage
                    /\ obs' = [ObsNone EXCEPT !.index = index, !.text = newText]
            ELSE /\ UNCHANGED <<state, storage>>
                 /\ obs' = [ObsNone EXCEPT !.index = index, !.text = newText,
                                           !.threw = TRUE]
       ELSE /\ UNCHANGED <<state, storage>>
            /\ obs' = [ObsNone EXCEPT !.index = index, !.text = newText]
    /\ op' = "updateDailyTask"
    /\ UNCHANGED <<today, pc, nextId, initDay>>

\* Array.prototype.splice(index, 1): a negative index counts from the end,
\* an index past the end removes nothing
splice1(seq, index) ==
    LET len == Len(seq)
        start == IF index < 0
                 THEN (IF len + index > 0 THEN len + index ELSE 0)
                 ELSE (IF index < len THEN index ELSE len)
    IN IF start < len
       THEN SubSeq(seq, 1, start) \o SubSeq(seq, start + 2, len)
       ELSE seq

\* a removal that also drops the task at the same position of today's list
removeDailyTask_sync(index) ==
    /\ pc = "running"
    /\ acts < MaxActions
    /\ acts' = acts + 1
    /\ LET m == saveState(machine(
                    [state EXCEPT !.dailyRoutine = splice1(@, index),
                                  !.tasks = splice1(@, index)],
                    storage, nextId))
       IN /\ state' = m.state
          /\ storage' = m.storage
    /\ op' = "removeDailyTask"
    /\ obs' = [ObsNone EXCEPT !.index = index]
    /\ UNCHANGED <<today, pc, nextId, initDay>>

removeDailyTask(index) ==
    /\ pc = "running"
    /\ acts < MaxActions
    /\ acts' = acts + 1
    /\ LET m == saveState(machine(
                    [state EXCEPT !.dailyRoutine = splice1(@, index)],
                    storage, nextId))
       IN /\ state' = m.state
          /\ storage' = m.storage
    /\ op' = "removeDailyTask"
    /\ obs' = [ObsNone EXCEPT !.index = index]
    /\ UNCHANGED <<today, pc, nextId, initDay>>

addDailyTemplate ==
    /\ pc = "running"
    /\ acts < MaxActions
    /\ acts' = acts + 1
    /\ LET m == saveState(machine(
                    [state EXCEPT !.dailyRoutine =
                        Append(@, [id |-> generateId(nextId), text |-> <<>>,
                                   type |-> "daily"])],
                    storage, nextId + 1))
       IN /\ state' = m.state
          /\ storage' = m.storage
          /\ nextId' = m.nextId
    /\ op' = "addDailyTemplate"
    /\ obs' = ObsNone
    /\ UNCHANGED <<today, pc, initDay>>

---------------------------------------------------------------------------
(* Events (src/app.js 333-347) *)

timeDisplayClick ==
    /\ pc = "running"
    /\ acts < MaxActions
    /\ acts' = acts + 1
    /\ LET m == saveState(machine(
                    [state EXCEPT !.settings.timeFormat =
                        IF @ = "12h" THEN "24h" ELSE "12h"],
                    storage, nextId))
       IN /\ state' = m.state
          /\ storage' = m.storage
    /\ op' = "timeDisplayClick"
    /\ obs' = ObsNone
    /\ UNCHANGED <<today, pc, nextId, initDay>>

formats == <<"Month", "MM/DD", "DD/MM">>

\* formats.indexOf(f) as a 0-based index, -1 when f is not in formats
indexOf(f) ==
    IF \E i \in 1..Len(formats) : formats[i] = f
    THEN (CHOOSE i \in 1..Len(formats) : formats[i] = f) - 1
    ELSE -1

dateDisplayClick ==
    /\ pc = "running"
    /\ acts < MaxActions
    /\ acts' = acts + 1
    /\ LET currentIdx == indexOf(state.settings.dateFormat)
           nextIdx == (currentIdx + 1) % Len(formats)
           m == saveState(machine(
                    [state EXCEPT !.settings.dateFormat = formats[nextIdx + 1]],
                    storage, nextId))
       IN /\ state' = m.state
          /\ storage' = m.storage
    /\ op' = "dateDisplayClick"
    /\ obs' = ObsNone
    /\ UNCHANGED <<today, pc, nextId, initDay>>

\* The .font-btn and .color-btn elements the page offers (data-font,
\* data-color): a small set of font numbers and of palette keys, the
\* defaults among them.
FontButtons == {"1", "2"}

ColorButtons == {"green", "blue"}

\* parseInt(btn.dataset.font)
parseInt(str) == IF str = "1" THEN 1 ELSE 2

fontBtnClick(font) ==
    /\ pc = "running"
    /\ acts < MaxActions
    /\ acts' = acts + 1
    /\ LET m == saveState(machine(
                    [state EXCEPT !.settings.font = parseInt(font)],
                    storage, nextId))
       IN /\ state' = m.state
          /\ storage' = m.storage
    /\ op' = "fontBtnClick"
    /\ obs' = ObsNone
    /\ UNCHANGED <<today, pc, nextId, initDay>>

colorBtnClick(color) ==
    /\ pc = "running"
    /\ acts < MaxActions
    /\ acts' = acts + 1
    /\ LET m == saveState(machine(
                    [state EXCEPT !.settings.themeColor = color],
                    storage, nextId))
       IN /\ state' = m.state
          /\ storage' = m.storage
    /\ op' = "colorBtnClick"
    /\ obs' = ObsNone
    /\ UNCHANGED <<today, pc, nextId, initDay>>

---------------------------------------------------------------------------
(* The persisted states a first page load may find *)

OldTask(k, text, type, completed, date) ==
    [id |-> generateId(0 - k), text |-> text, type |-> type,
     completed |-> completed, dateAdded |-> date]

StoredTasks(date) ==
    { <<>>,
      << OldTask(1, <<"a">>, "extra", TRUE, date),
         OldTask(2, <<"b">>, "extra", FALSE, date) >>,
      << OldTask(3, Txt_MorningStretch, "daily", TRUE, date),
         OldTask(1, <<"a">>, "extra", FALSE, date) >> }

StoredRoutines ==
    { [tag |-> "absent", val |-> <<>>],
      [tag |-> "null",   val |-> <<>>],
      [tag |-> "array",  val |-> <<>>],
      [tag |-> "array",  val |-> << [id |-> generateId(0 - 4), text |-> <<"r">>,
                                     type |-> "daily"] >>] }

StoredBlobs ==
    { [kind |-> "absent"], [kind |-> "malformed"] }
    \cup
    { [kind |-> "object", tasks |-> t, routineTag |-> r.tag,
       dailyRoutine |-> r.val, settings |-> DefaultSettings,
       lastOpenDate |-> d] :
         d \in {NullDate, 1, 2}, t \in StoredTasks(1), r \in StoredRoutines }

Init ==
    /\ state = state0
    /\ storage \in StoredBlobs
    /\ today = 2
    /\ pc = "unloaded"
    /\ nextId = 1
    /\ op = "none"
    /\ obs = ObsNone
    /\ initDay = NullDate
    /\ acts = 0

Next ==
    \/ init
    \/ DateChange
    \/ \E text \in TextInputs : addTask(text)
    \/ \E i \in 1..Len(state.tasks) : toggleTask(state.tasks[i].id)
    \/ toggleTask(generateId(0))
    \/ \E index \in -1..Len(state.dailyRoutine), text \in TextInputs :
          updateDailyTask(index, text)
    \/ \E index \in -1..Len(state.dailyRoutine) : removeDailyTask(index)
    \/ addDailyTemplate
    \/ timeDisplayClick
    \/ dateDisplayClick
    \/ \E font \in FontButtons : fontBtnClick(font)
    \/ \E color \in ColorButtons : colorBtnClick(color)

Spec == Init /\ [][Next]_vars

---------------------------------------------------------------------------
(* Properties *)

JustInit == op = "init" /\ pc = "running"

SeenObject == obs.seen.kind = "object"

Ids(tasks) == { tasks[i].id : i \in 1..Len(tasks) }

\* tasks holds one uncompleted daily instance per template of routine, in
\* routine order, with the template's text, stamped date
InstancesOf(tasks, routine, date) ==
    /\ Len(tasks) = Len(routine)
    /\ \A i \in 1..Len(tasks) :
          /\ tasks[i].text = routine[i].text
          /\ tasks[i].type = "daily"
          /\ tasks[i].completed = FALSE
          /\ tasks[i].dateAdded = date

\* C1 (reset destructiveness): right after an initialization that read a
\* persisted state whose lastOpenDate is not today, tasks is exactly one fresh
\* uncompleted daily instance per dailyRoutine template, in routine order,
\* dated today; no task of the stored list survives; lastOpenDate is today.
C1_ResetDestructive ==
    (JustInit /\ SeenObject /\ obs.seen.lastOpenDate # today) =>
        /\ InstancesOf(state.tasks, state.dailyRoutine, today)
        /\ Ids(state.tasks) \cap Ids(obs.seen.tasks) = {}
        /\ state.lastOpenDate = today

C1_Witness ==
    /\ JustInit /\ SeenObject /\ obs.seen.lastOpenDate # today
    /\ \E i \in 1..Len(obs.seen.tasks) :
          obs.seen.tasks[i].completed /\ obs.seen.tasks[i].type = "extra"
    /\ Len(state.tasks) > 0

\* C2 (bootstrap from nothing): right after an initialization that found no
\* blob, dailyRoutine is the non-empty default set, tasks is one fresh
\* uncompleted daily instance per default template dated today, lastOpenDate
\* is today, and saveState ran exactly once during that initialization.
C2_Bootstrap ==
    (JustInit /\ obs.seen.kind = "absent") =>
        /\ state.dailyRoutine = DEFAULT_DAILY_TASKS
        /\ Len(state.dailyRoutine) > 0
        /\ InstancesOf(state.tasks, DEFAULT_DAILY_TASKS, today)
        /\ state.lastOpenDate = today
        /\ obs.saves = 1
        /\ ~obs.reset /\ ~obs.backfill

C2_Witness ==
    /\ JustInit /\ obs.seen.kind = "absent"
    /\ storage = JSON_stringify(state)
    /\ Len(state.tasks) = 3

\* C3 (backfill preserves extras): right after an initialization that read
\* a persisted state with lastOpenDate = today, only extra tasks, and a
\* non-empty routine, tasks is the fresh daily instances (one per template,
\* routine order, uncompleted, dated today) followed by the stored tasks
\* unchanged.
C3_BackfillKeepsExtras ==
    (/\ JustInit /\ SeenObject /\ obs.seen.lastOpenDate = today
     /\ Len(obs.loaded.dailyRoutine) > 0
     /\ \A i \in 1..Len(obs.seen.tasks) : obs.seen.tasks[i].type = "extra") =>
        LET k == Len(state.dailyRoutine)
        IN /\ Len(state.tasks) = k + Len(obs.seen.tasks)
           /\ InstancesOf(SubSeq(state.tasks, 1, k), state.dailyRoutine, today)
           /\ SubSeq(state.tasks, k + 1, Len(state.tasks)) = obs.seen.tasks
           /\ Ids(SubSeq(state.tasks, 1, k)) \cap Ids(obs.seen.tasks) = {}

C3_Witness ==
    /\ JustInit /\ SeenObject /\ obs.seen.lastOpenDate = today
    /\ obs.backfill
    /\ Len(obs.seen.tasks) >= 2
    /\ \A i \in 1..Len(obs.seen.tasks) : obs.seen.tasks[i].type = "extra"
    /\ \E i \in 1..Len(obs.seen.tasks) : obs.seen.tasks[i].completed

\* C4 (same-day idempotence): when an initialization that read a persisted
\* state with lastOpenDate = today is followed at once by another
\* initialization, the second one neither resets nor backfills and leaves
\* the same tasks sequence as the first.
C4_Idempotent ==
    (JustInit /\ obs.rerun /\ obs.prevToday) =>
        /\ state.tasks = obs.prevTasks
        /\ ~obs.reset
        /\ ~obs.backfill

C4_Witness ==
    /\ JustInit /\ obs.rerun /\ obs.prevToday
    /\ obs.prevBackfill
    /\ Len(state.tasks) > Len(state.dailyRoutine)

\* C5 (reset at most once per day): an initialization on a day on which an
\* earlier initialization already completed never runs performDailyReset,
\* and every task the blob held (extras added and completion flags set
\* since) is still in tasks, unchanged and in order, at the end of the list.
C5_ResetOncePerDay ==
    (op = "init" /\ obs.sameDay) =>
        /\ pc = "running"
        /\ ~obs.reset
        /\ SeenObject
        /\ Len(state.tasks) >= Len(obs.seen.tasks)
        /\ SubSeq(state.tasks, Len(state.tasks) - Len(obs.seen.tasks) + 1,
                  Len(state.tasks)) = obs.seen.tasks

C5_Witness ==
    /\ JustInit /\ obs.sameDay
    /\ \E i \in 1..Len(state.tasks) :
          /\ state.tasks[i].type = "extra"
          /\ state.tasks[i].dateAdded = today
          /\ state.tasks[i].id \in Ids(obs.seen.tasks)
    /\ \E i \in 1..Len(state.tasks) :
          /\ state.tasks[i].type = "daily"
          /\ state.tasks[i].dateAdded = today
          /\ state.tasks[i].completed

RoutineOps == {"updateDailyTask", "removeDailyTask", "addDailyTemplate"}

\* the same task but for its completed flag
SameButCompleted(t, u) ==
    /\ t.id = u.id
    /\ t.text = u.text
    /\ t.type = u.type
    /\ t.dateAdded = u.dateAdded

\* C6 (template independence): updateDailyTask, removeDailyTask and
\* addDailyTemplate leave the tasks sequence as it is, in memory and in the
\* blob; and while tasks holds a daily instance, no step other than an
\* initialization that resets changes the id, text, type, date or position
\* of any task (only completed flags change and extras are appended).
C6_TemplateIndependence ==
    [][ /\ (op' \in RoutineOps) =>
              /\ state'.tasks = state.tasks
              /\ storage'.kind = "object" => storage'.tasks = state.tasks
        /\ (/\ pc = "running"
            /\ hasDailyTasks(state.tasks)
            /\ ~(op' = "init" /\ obs'.reset)) =>
              /\ Len(state'.tasks) >= Len(state.tasks)
              /\ \A i \in 1..Len(state.tasks) :
                    SameButCompleted(state'.tasks[i], state.tasks[i])
      ]_vars

C6_Witness ==
    /\ op = "removeDailyTask"
    /\ hasDailyTasks(state.tasks)
    /\ Len(state.dailyRoutine) = 0
    /\ \E i \in 1..Len(state.tasks) :
          state.tasks[i].type = "daily" /\ state.tasks[i].completed

\* C7 (toggle does not reorder): toggleTask(id) keeps the length of tasks
\* and the id, text, type and dateAdded at every index; it flips completed
\* of the first task whose id is id and of no task with another id.
C7_ToggleKeepsOrder ==
    [][ (op' = "toggleTask") =>
          /\ Len(state'.tasks) = Len(state.tasks)
          /\ \A i \in 1..Len(state.tasks) :
                /\ SameButCompleted(state'.tasks[i], state.tasks[i])
                /\ (state.tasks[i].id # obs'.arg) =>
                      state'.tasks[i].completed = state.tasks[i].completed
                /\ (/\ state.tasks[i].id = obs'.arg
                    /\ \A j \in 1..(i - 1) : state.tasks[j].id # obs'.arg) =>
                      state'.tasks[i].completed = ~state.tasks[i].completed
      ]_vars

C7_Witness ==
    /\ op = "toggleTask"
    /\ Len(state.tasks) >= 3
    /\ \E i \in 1..(Len(state.tasks) - 1) :
          /\ state.tasks[i].id = obs.arg
          /\ state.tasks[i].completed
          /\ ~state.tasks[i + 1].completed

\* C8 as stated (I5): whenever initialization has completed, dailyRoutine
\* is not empty.
C8_RoutineNeverEmpty ==
    (pc = "running") => Len(state.dailyRoutine) > 0

\* C8 amended: right after an initialization that found no blob, or a blob
\* whose dailyRoutine is null, dailyRoutine is the non-empty default set;
\* a blob that holds a dailyRoutine array is loaded as it is, empty or not;
\* and a non-empty dailyRoutine becomes empty only by removeDailyTask.
C8_RoutineSeeded ==
    /\ [](/\ (JustInit /\ (obs.seen.kind = "absent" \/
                             (SeenObject /\ obs.seen.routineTag = "null"))) =>
               (state.dailyRoutine = DEFAULT_DAILY_TASKS
                    /\ Len(state.dailyRoutine) > 0)
          /\ (JustInit /\ SeenObject /\ obs.seen.routineTag = "array") =>
               state.dailyRoutine = obs.seen.dailyRoutine)
    /\ [][ (/\ pc = "running" /\ pc' = "running"
            /\ Len(state.dailyRoutine) > 0
            /\ Len(state'.dailyRoutine) = 0) => op' = "removeDailyTask" ]_vars

C8_Witness ==
    /\ op = "removeDailyTask"
    /\ Len(state.dailyRoutine) = 0
    /\ storage.kind = "object" /\ Len(storage.dailyRoutine) = 0

\* C9 as stated (legacy repair): after loadState on a blob that has no
\* dailyRoutine field, dailyRoutine is the default templates and tasks is
\* the loaded tasks.
C9_LegacyRepair ==
    (op = "init" /\ SeenObject /\ obs.seen.routineTag = "absent") =>
        /\ obs.loaded.dailyRoutine = DEFAULT_DAILY_TASKS
        /\ obs.loaded.tasks = obs.seen.tasks

\* C10 as stated (malformed state recovered): an initialization that reads
\* a blob that does not parse completes, with the default dailyRoutine, one
\* daily task per default template and lastOpenDate = today.
C10_MalformedRecovered ==
    (op = "init" /\ obs.seen.kind = "malformed") =>
        /\ pc = "running"
        /\ ~obs.threw
        /\ state.dailyRoutine = DEFAULT_DAILY_TASKS
        /\ InstancesOf(state.tasks, DEFAULT_DAILY_TASKS, today)
        /\ state.lastOpenDate = today

\* C11 (I1): once an initialization has completed, lastOpenDate, in memory
\* and in the blob, is the day on which the most recent initialization ran,
\* whatever the persisted state it started from, and no later handler
\* changes it.
C11_LastOpenDate ==
    (pc = "running") =>
        /\ initDay # NullDate
        /\ state.lastOpenDate = initDay
        /\ storage.kind = "object" /\ storage.lastOpenDate = initDay
        /\ (op = "init") => state.lastOpenDate = today

C11_Witness ==
    /\ pc = "running"
    /\ op = "addTask"
    /\ today # initDay
    /\ state.lastOpenDate = initDay
    /\ Len(state.tasks) > 0
    /\ state.tasks[Len(state.tasks)].dateAdded = today

\* C12 (I2): with generateId never repeating an identifier, no two entries
\* of tasks have the same id, in memory and in the blob.
Unique(tasks) ==
    \A i, j \in 1..Len(tasks) : (tasks[i].id = tasks[j].id) => i = j

C12_UniqueIds ==
    /\ Unique(state.tasks)
    /\ storage.kind = "object" => Unique(storage.tasks)

C12_Witness ==
    /\ pc = "running"
    /\ \E i, j, k \in 1..Len(state.tasks) :
          /\ state.tasks[i].type = "daily" /\ state.tasks[i].id[2] > 0
          /\ state.tasks[j].type = "extra" /\ state.tasks[j].id[2] <= 0
          /\ state.tasks[k].type = "extra" /\ state.tasks[k].id[2] > 0

AllSpaces(text) == \A k \in 1..Len(text) : text[k] = " "

\* short is text without its leading and trailing spaces
IsTrimOf(short, text) ==
    /\ short # <<>>
    /\ short[1] # " "
    /\ short[Len(short)] # " "
    /\ \E a, b \in 0..Len(text) :
          /\ a + Len(short) + b = Len(text)
          /\ \A k \in 1..Len(text) :
                IF k <= a \/ k > a + Len(short) THEN text[k] = " "
                ELSE text[k] = short[k - a]

\* C13 (addTask): with a text that is empty after trimming addTask leaves
\* the state and the blob as they are; otherwise tasks grows by one entry at
\* the end (the trimmed text, type extra, not completed, dated today, an id
\* no task or template has), the earlier entries stay, and the blob is the
\* serialization of the new state.
C13_AddTask ==
    [][ (op' = "addTask") =>
          IF AllSpaces(obs'.text)
          THEN state' = state /\ storage' = storage
          ELSE LET n == Len(state.tasks)
                   t == state'.tasks[n + 1]
               IN /\ Len(state'.tasks) = n + 1
                  /\ SubSeq(state'.tasks, 1, n) = state.tasks
                  /\ IsTrimOf(t.text, obs'.text)
                  /\ t.type = "extra"
                  /\ t.completed = FALSE
                  /\ t.dateAdded = today
                  /\ t.id \notin Ids(state.tasks) \cup Ids(state.dailyRoutine)
                  /\ state' = [state EXCEPT !.tasks = state'.tasks]
                  /\ storage' = JSON_stringify(state')
      ]_vars

C13_Witness ==
    /\ op = "addTask"
    /\ obs.text = <<" ", "a", " ">>
    /\ Len(state.tasks) >= 2
    /\ state.tasks[Len(state.tasks)].text = <<"a">>
    /\ storage = JSON_stringify(state)

\* C14 (toggleTask, no match): toggleTask with an id no task has raises no
\* error and leaves the state and the blob as they are.
C14_ToggleUnknown ==
    [][ (op' = "toggleTask" /\ obs'.arg \notin Ids(state.tasks)) =>
          /\ state' = state
          /\ storage' = storage
          /\ ~obs'.threw
          /\ pc' = pc
      ]_vars

C14_Witness ==
    /\ op = "toggleTask"
    /\ obs.arg \notin Ids(state.tasks)
    /\ Len(state.tasks) > 0
    /\ storage # JSON_stringify(state)

\* seq without its element at the 0-based position index
RemoveAt(seq, index) ==
    [k \in 1..(Len(seq) - 1) |-> IF k <= index THEN seq[k] ELSE seq[k + 1]]

\* C15 as stated (removeDailyTask): with index < 0 or index >= length
\* dailyRoutine stays as it is and no error is raised; with an index in
\* range exactly the template at index is removed.
C15_RemoveOutOfRange ==
    [][ (op' = "removeDailyTask") =>
          /\ ~obs'.threw
          /\ IF obs'.index < 0 \/ obs'.index >= Len(state.dailyRoutine)
             THEN state'.dailyRoutine = state.dailyRoutine
             ELSE state'.dailyRoutine = RemoveAt(state.dailyRoutine, obs'.index)
      ]_vars

\* C16 as stated (persist before return): whenever initialization or a
\* handler has run to completion, the blob is the serialization of the
\* in-memory state.
C16_PersistBeforeReturn ==
    (pc = "running") => storage = JSON_stringify(state)

\* C17 (all templates deleted): an initialization on a day later than the
\* blob's lastOpenDate that reads an empty dailyRoutine resets, does not
\* backfill, and leaves tasks empty, in memory and in the blob.
C17_EmptyRoutineReset ==
    (/\ JustInit /\ SeenObject
     /\ obs.seen.routineTag = "array" /\ Len(obs.seen.dailyRoutine) = 0
     /\ obs.seen.lastOpenDate # today) =>
        /\ obs.reset
        /\ ~obs.backfill
        /\ state.tasks = <<>>
        /\ state.dailyRoutine = <<>>
        /\ storage = JSON_stringify(state)

\* the blob held a daily instance and an extra made in this behaviour, of a
\* day before today, and no template any more
C17_Witness ==
    /\ JustInit /\ SeenObject
    /\ obs.seen.routineTag = "array" /\ Len(obs.seen.dailyRoutine) = 0
    /\ obs.seen.lastOpenDate # NullDate /\ obs.seen.lastOpenDate < today
    /\ \E i, j \in 1..Len(obs.seen.tasks) :
          /\ obs.seen.tasks[i].type = "daily" /\ obs.seen.tasks[i].id[2] > 0
          /\ obs.seen.tasks[j].type = "extra" /\ obs.seen.tasks[j].id[2] > 0
    /\ state.tasks = <<>>

\* C18 as stated (updateDailyTask): with a non-empty trimmed text and an
\* index that is no position of dailyRoutine the call raises no error and
\* leaves the state as it is; with an empty trimmed text it changes nothing;
\* with a position and a non-empty text it replaces that template's text by
\* the trimmed text and nothing else.
C18_UpdateAbsorbed ==
    [][ (op' = "updateDailyTask") =>
          LET index == obs'.index
              inRange == index >= 0 /\ index < Len(state.dailyRoutine)
          IN /\ ~obs'.threw
             /\ (AllSpaces(obs'.text) \/ ~inRange) =>
                   state' = state /\ storage' = storage
             /\ (~AllSpaces(obs'.text) /\ inRange) =>
                   /\ IsTrimOf(state'.dailyRoutine[index + 1].text, obs'.text)
                   /\ state' = [state EXCEPT !.dailyRoutine[index + 1].text =
                                    state'.dailyRoutine[index + 1].text]
      ]_vars

\* C19 as stated: a reset never discards a task that addTask created on
\* the day the reset runs.
C19_TodaysTasksSurvive ==
    (op = "init" /\ SeenObject /\ obs.reset) =>
        \A i \in 1..Len(obs.seen.tasks) :
            (obs.seen.tasks[i].type = "extra"
                /\ obs.seen.tasks[i].dateAdded = today) =>
            \E j \in 1..Len(state.tasks) : state.tasks[j] = obs.seen.tasks[i]

\* C20 (daily before extra): in tasks no extra task comes before a daily
\* task, in memory and in the blob.
DailyFirst(tasks) ==
    \A i, j \in 1..Len(tasks) :
        (tasks[i].type = "extra" /\ tasks[j].type = "daily") => j < i

C20_DailyBeforeExtra ==
    /\ DailyFirst(state.tasks)
    /\ storage.kind = "object" => DailyFirst(storage.tasks)

\* a backfill put the daily instances in front of extras, and addTask then
\* put an extra behind them
C20_Witness ==
    /\ op = "addTask"
    /\ \E i, j, k \in 1..Len(state.tasks) :
          /\ i < j /\ j < k
          /\ state.tasks[i].type = "daily" /\ state.tasks[i].id[2] > 0
          /\ state.tasks[j].type = "extra" /\ state.tasks[j].id[2] <= 0
          /\ state.tasks[k].type = "extra" /\ state.tasks[k].id[2] > 0
          /\ state.tasks[i].id[2] < state.tasks[k].id[2]

====
